---------------------------- MODULE Spec2Model ----------------------------
(***************************************************************************)
(* A model of the CHIP-8 interpreter of arskiy/chip8-rs.                   *)
(*                                                                         *)
(*   src/src/chip8.rs    struct Chip8, the tick loop `start`, `fetch`,     *)
(*                       `decode_execute` and the 35 opcode handlers       *)
(*   src/src/display.rs  struct Display: the canvas, the audio device and  *)
(*                       the keyboard poll                                 *)
(*   src/src/main.rs     construction and ROM loading                      *)
(*                                                                         *)
(* Every step of the loop body of `start` is one action, `at` being the    *)
(* position of the control; every opcode handler is one action, enabled    *)
(* by the pattern `decode_execute` matches it with.  A Rust panic (an      *)
(* index out of bounds, an arithmetic overflow in a checked build) ends    *)
(* the process: the control moves to "panic" and nothing is enabled any    *)
(* more.  The ROM is an input: Init draws it from the bounded set Roms.    *)
(***************************************************************************)
EXTENDS Integers, Sequences, FiniteSets, TLC

VARIABLES
    pc,             \* Chip8.pc: usize
    op,             \* Chip8.op: u16
    ir,             \* Chip8.ir: usize
    sp,             \* Chip8.sp: usize
    delay_timer,    \* Chip8.delay_timer: u8
    sound_timer,    \* Chip8.sound_timer: u8
    registers,      \* Chip8.registers: [u8; 16]
    keypad,         \* Chip8.keypad: [bool; 16]
    ram,            \* Chip8.ram: [u8; RAM_SIZE]
    vram,           \* Chip8.vram: [[u8; WIDTH]; HEIGHT]
    stack,          \* Chip8.stack: [usize; 16]
    draw_flag,      \* Chip8.draw_flag: bool
    audio,          \* Display.audio: the device is "playing" or "paused"
    canvas,         \* Display.canvas: the frame presented last
    held,           \* the keys held down on the keyboard (the event pump's keyboard_state)
    at,             \* the position of the control in start / cycle / op_fx0a
    panic,          \* the message of the panic that ended the process, "" if none
    calls,          \* history: the addresses of the call instructions not yet returned from
    last,           \* history: the last two instructions executed, the latest first
    timed           \* history: the value Fx15 set the delay timer to last, and the ticks since

cpu  == <<pc, op, ir, sp, delay_timer, sound_timer, registers, stack>>
mem  == <<ram, vram, draw_flag>>
disp == <<audio, canvas>>
vars == <<cpu, mem, disp, keypad, held, at, panic, calls, last, timed>>

---------------------------------------------------------------------------
(* Program constants *)

WIDTH == 64
HEIGHT == 32
RAM_SIZE == 4096
STACK_LEN == 16
NUM_REGISTERS == 16
NUM_KEYS == 16
PC_START == 512
FONT_BYTES == 5

(* Bounds of the model *)

\* The deepest call nesting the recursive ROMs ask for; one more than the stack holds.
MaxDepth == 17

\* The ticks counted after an Fx15; the ticks after these are not told apart.
MaxTicks == 8

---------------------------------------------------------------------------
(* u8 arithmetic: Rust's &, |, ^ on u8, by bits *)

Bit(v, i) == (v \div (2^i)) % 2

And8(a, b) ==
    LET f[i \in 0..8] == IF i = 8 THEN 0 ELSE Bit(a, i) * Bit(b, i) * (2^i) + f[i + 1]
    IN  f[0]

Or8(a, b) ==
    LET f[i \in 0..8] ==
            IF i = 8 THEN 0
            ELSE (IF Bit(a, i) + Bit(b, i) > 0 THEN 2^i ELSE 0) + f[i + 1]
    IN  f[0]

\* ^ taken for |: a set bit stays set.
Xor8_sets_bits(a, b) == Or8(a, b)

Xor8(a, b) ==
    LET f[i \in 0..8] ==
            IF i = 8 THEN 0
            ELSE ((Bit(a, i) + Bit(b, i)) % 2) * (2^i) + f[i + 1]
    IN  f[0]

\* u8::wrapping_add, u8::wrapping_sub
wrapping_add(a, b) == (a + b) % 256
wrapping_sub(a, b) == (a - b + 256) % 256

---------------------------------------------------------------------------
(* The fields decode_execute takes from the opcode *)

hex0 == (op \div 4096) % 16
hex1 == (op \div 256) % 16
hex2 == (op \div 16) % 16
hex3 == op % 16
nnn == op % 4096
lower_byte == op % 256
X == hex1
Y == hex2
N == hex3

---------------------------------------------------------------------------
(* The instruction words, as decode_execute's patterns name them *)

CLS == \h00E0
RET == \h00EE
JP(addr) == \h1000 + addr
CALL(addr) == \h2000 + addr
SE(x, kk) == \h3000 + x * 256 + kk
SNE(x, kk) == \h4000 + x * 256 + kk
SEV(x, y) == \h5000 + x * 256 + y * 16
LD(x, kk) == \h6000 + x * 256 + kk
ADD(x, kk) == \h7000 + x * 256 + kk
ALU(x, y, n) == \h8000 + x * 256 + y * 16 + n
SNEV(x, y) == \h9000 + x * 256 + y * 16
LDI(addr) == \hA000 + addr
JPV0(addr) == \hB000 + addr
RND(x, kk) == \hC000 + x * 256 + kk
DRW(x, y, n) == \hD000 + x * 256 + y * 16 + n
SKP(x) == \hE09E + x * 256
SKNP(x) == \hE0A1 + x * 256
LDVDT(x) == \hF007 + x * 256
LDK(x) == \hF00A + x * 256
LDDT(x) == \hF015 + x * 256
LDST(x) == \hF018 + x * 256
ADDI(x) == \hF01E + x * 256
LDF(x) == \hF029 + x * 256
LDB(x) == \hF033 + x * 256
STM(x) == \hF055 + x * 256
LDM(x) == \hF065 + x * 256

\* A program as the bytes of a ROM file: each instruction word, high byte first.
Asm(words) ==
    [i \in 1..(2 * Len(words)) |->
        IF i % 2 = 1 THEN words[(i + 1) \div 2] \div 256 ELSE words[i \div 2] % 256]

---------------------------------------------------------------------------
(* Construction: main, Chip8::new, Chip8::load_rom, Display::new *)

\* fontset::FONT_SET: the sprites of the digits 0..F, five bytes each.
FONT_SET ==
    << 240, 144, 144, 144, 240,    32,  96,  32,  32, 112,
       240,  16, 240, 128, 240,   240,  16, 240,  16, 240,
       144, 144, 240,  16,  16,   240, 128, 240,  16, 240,
       240, 128, 240, 144, 240,   240,  16,  32,  64,  64,
       240, 144, 240, 144, 240,   240, 144, 240,  16, 240,
       240, 144, 240, 144, 144,   224, 144, 224, 144, 224,
       240, 128, 128, 128, 240,   224, 144, 144, 144, 224,
       240, 128, 240, 128, 240,   240, 128, 240, 128, 128 >>

\* Chip8::new: the memory with the font in its first bytes.
new_ram(fontset) ==
    [a \in 0..(RAM_SIZE - 1) |-> IF a < Len(fontset) THEN fontset[a + 1] ELSE 0]

\* Chip8::load_rom: the bytes from 0x200 on; those past the memory are dropped.
load_rom(r, data) ==
    [a \in 0..(RAM_SIZE - 1) |->
        IF a >= PC_START /\ a - PC_START < Len(data) THEN data[a - PC_START + 1] ELSE r[a]]

BLACK == "RGB(0, 0, 0)"
LIGHT == "RGB(210, 210, 210)"

---------------------------------------------------------------------------
(* The inputs: the ROMs, the keyboard, the random bytes *)

\* k nested calls of the routine at 0x206, then k returns, then a closed loop.
RomRecurse(k) ==
    Asm(<< LD(10, k), CALL(\h206), JP(\h204),
           ADD(10, 255), SE(10, 0), CALL(\h206), RET >>)

\* A routine that calls itself without end.
RomCallSelf == Asm(<< CALL(\h200) >>)

\* A return with nothing to return from.
RomReturn == Asm(<< RET >>)

\* A jump to the last bytes of the memory, which hold no program.
JumpTargets == { \hFFC, \hFFF }
RomJump(addr) == Asm(<< JP(addr) >>)

\* The indexed jump with V0 set: to the closed loop at 0x204, and past the
\* last address of the memory.
IndexedJumps == { <<\h200, 4>>, <<\hFFF, 255>>, <<\hF80, 128>> }
RomJumpV0(addr, v) == Asm(<< LD(0, v), JPV0(addr), JP(\h204) >>)

\* The two key skips on the key that V1 names, tick after tick.
KeyValues == { 0, 12, 16, 255 }
RomKeys(v) ==
    Asm(<< LD(1, v), SKP(1), JP(\h202), SKNP(1), JP(\h206), JP(\h202) >>)

\* The wait for a key, then a closed loop.
RomWait == Asm(<< LDK(2), JP(\h202) >>)

\* The index register set and advanced, then one operation on the memory at it.
IndexBases == { \h300, \hFFE, \hFFF }
IndexSteps == { 0, 1, 255 }
MemoryOps == { LDB(1), STM(1), LDM(1), DRW(0, 0, 2) }
RomIndex(base, step, memop) ==
    Asm(<< LDI(base), LD(1, step), ADDI(1), memop, JP(\h208) >>)

\* The index register set to the sprite of the digit that V1 names, and the sprite drawn.
DigitValues == { 7, 15, 255 }
RomDigit(v) == Asm(<< LD(1, v), LDF(1), DRW(0, 0, 5), JP(\h206) >>)

\* A background drawn at (0, 0), then one sprite drawn three times in a row
\* at (Vx, Vy); the two sprites follow the program in the ROM.
DrawRegisters == { <<1, 2>>, <<15, 2>>, <<1, 15>> }
DrawCoords == { <<0, 0>>, <<62, 31>>, <<200, 100>> }
Sprites == { <<255>>, <<129, 0, 60>>, <<0, 0>> }
Backgrounds == { << >>, <<240, 15>> }
RomDraw(xy, at_xy, bg, sprite) ==
    Asm(<< LD(xy[1], at_xy[1]), LD(xy[2], at_xy[2]),
           LDI(\h212), DRW(0, 0, Len(bg)),
           LDI(\h212 + Len(bg)),
           DRW(xy[1], xy[2], Len(sprite)), DRW(xy[1], xy[2], Len(sprite)),
           DRW(xy[1], xy[2], Len(sprite)),
           JP(\h210) >>) \o bg \o sprite

\* Registers V0, V1, VF and Vx set, then V0..Vx stored at I and loaded back
\* from there, the last of them in the byte at base, up to the last byte of
\* the memory.
BlockRegisters == { 0, 1, 15 }
BlockBases == { \h300, \hFFF }
RomBlock(x, base) ==
    Asm(<< LD(0, 7), LD(1, 200), LD(15, 9), LD(x, 77), LDI(base - x), STM(x), LDM(x),
           JP(\h20E) >>)

\* Both timers set from V1, then the delay timer read until it is 0.
TimerValues == { 0, 1, 3 }
RomTimers(v) ==
    Asm(<< LD(1, v), LDDT(1), LDST(1), LDVDT(2), SE(2, 0), JP(\h206), JP(\h20C) >>)

\* One operation 8xyn on two registers.
AluRegisters == { <<1, 2>>, <<1, 15>>, <<15, 1>>, <<1, 1>> }
AluValues == { <<1, 2>>, <<2, 1>>, <<255, 1>>, <<129, 129>> }
AluOps == { 0, 1, 2, 3, 4, 5, 6, 7, 14 }
RomAlu(xy, v, n) ==
    Asm(<< LD(xy[1], v[1]), LD(xy[2], v[2]), ALU(xy[1], xy[2], n), JP(\h206) >>)

\* A register, the index register and the sound timer set, then a word that
\* is no instruction, then a closed loop.
UnknownWords == { \h0123, \h00E1, \h5121, \h8128, \h9121, \hE100, \hF100 }
RomUnknown(word) == Asm(<< LD(3, 9), LDI(\h321), LDST(3), word, JP(\h208) >>)

\* The clear, the remaining skips, a random byte and the indexed jump.
RomMisc ==
    Asm(<< CLS, LD(0, 4),
           SNE(0, 5), JP(\h206),
           SEV(0, 0), JP(\h20A),
           SNEV(0, 1), JP(\h20E),
           RND(1, 15), JPV0(\h214),
           JP(\h214), JP(\h216), JP(\h218) >>)

Roms ==
    { RomRecurse(k) : k \in 1..MaxDepth }
        \cup { RomCallSelf, RomReturn, RomWait, RomMisc }
        \cup { RomJump(addr) : addr \in JumpTargets }
        \cup { RomJumpV0(j[1], j[2]) : j \in IndexedJumps }
        \cup { RomUnknown(word) : word \in UnknownWords }
        \cup { RomKeys(v) : v \in KeyValues }
        \cup { RomIndex(base, step, memop) :
                 base \in IndexBases, step \in IndexSteps, memop \in MemoryOps }
        \cup { RomDigit(v) : v \in DigitValues }
        \cup { RomDraw(xy, at_xy, bg, sprite) :
                 xy \in DrawRegisters, at_xy \in DrawCoords, bg \in Backgrounds,
                 sprite \in Sprites }
        \cup { RomTimers(v) : v \in TimerValues }
        \cup { RomBlock(x, base) : x \in BlockRegisters, base \in BlockBases }
        \cup { RomAlu(xy, v, n) : xy \in AluRegisters, v \in AluValues, n \in AluOps }

\* What the keyboard can hold down: nothing; V, 4 and a key the keypad has not.
HeldInputs == { {}, {"V", "Num4", "Tab"} }

\* The bytes the random number generator yields.
RandomBytes == { 0, 165, 255 }

---------------------------------------------------------------------------
(* Display *)

\* Display::update_keypad's match: the keypad index of a key code, -1 for None.
KeyIndex(key) ==
    CASE key = "Num1" -> 1  [] key = "Num2" -> 2  [] key = "Num3" -> 3  [] key = "Num4" -> 12
      [] key = "Q" -> 4     [] key = "W" -> 5     [] key = "E" -> 6     [] key = "R" -> 13
      [] key = "A" -> 7     [] key = "S" -> 8     [] key = "D" -> 9     [] key = "F" -> 14
      [] key = "Z" -> 10    [] key = "X" -> 0     [] key = "C" -> 11    [] key = "V" -> 15
      [] OTHER -> -1

\* Display::update_keypad, without the Quit event: the keypad of the keys held.
update_keypad(keys) ==
    [i \in 0..(NUM_KEYS - 1) |-> \E key \in keys : KeyIndex(key) = i]

\* Display::draw: every pixel that is not 0 is painted light, the others black.
draw(pixels) ==
    [row \in 0..(HEIGHT - 1) |->
        [col \in 0..(WIDTH - 1) |-> IF pixels[row][col] = 0 THEN BLACK ELSE LIGHT]]

---------------------------------------------------------------------------
(* Initial state *)

Init ==
    /\ \E rom \in Roms : ram = load_rom(new_ram(FONT_SET), rom)
    /\ pc = PC_START
    /\ op = 0
    /\ ir = 0
    /\ sp = 0
    /\ vram = [row \in 0..(HEIGHT - 1) |-> [col \in 0..(WIDTH - 1) |-> 0]]
    /\ registers = [i \in 0..(NUM_REGISTERS - 1) |-> 0]
    /\ keypad = [i \in 0..(NUM_KEYS - 1) |-> FALSE]
    /\ delay_timer = 0
    /\ sound_timer = 0
    /\ stack = [i \in 0..(STACK_LEN - 1) |-> 0]
    /\ draw_flag = FALSE
    /\ audio = "playing"
    /\ canvas = [row \in 0..(HEIGHT - 1) |-> [col \in 0..(WIDTH - 1) |-> BLACK]]
    /\ held = {}
    /\ at = "update_keypad"
    /\ panic = ""
    /\ calls = << >>
    /\ last = << >>
    /\ timed = << >>

---------------------------------------------------------------------------
(* The environment *)

\* A key goes down or up.  Only the poll and the wait for a key can tell, so
\* the keyboard changes while the control is at one of them.
KeyEvent ==
    /\ at \in {"update_keypad", "op_fx0a"}
    /\ \E keys \in HeldInputs \ {held} : held' = keys
    /\ UNCHANGED <<cpu, mem, disp, keypad, at, panic, calls, last, timed>>

---------------------------------------------------------------------------
(* The loop of Chip8::start, one action for each step of its body *)

\* self.keypad = self.display.update_keypad(); a Quit event exits the process there.
start_update_keypad ==
    /\ at = "update_keypad"
    /\ \E quit \in BOOLEAN :
          IF quit
          THEN /\ at' = "exit"
               /\ UNCHANGED keypad
          ELSE /\ at' = "draw"
               /\ keypad' = update_keypad(held)
    /\ UNCHANGED <<cpu, mem, disp, held, panic, calls, last, timed>>

\* start's render step without `self.draw_flag = false`: the flag stays set.
start_draw_keeps_flag ==
    /\ at = "draw"
    /\ canvas' = IF draw_flag THEN draw(vram) ELSE canvas
    /\ at' = "delay_timer"
    /\ UNCHANGED <<cpu, mem, audio, keypad, held, panic, calls, last, timed>>

\* if self.draw_flag { self.display.draw(&self.vram); } self.draw_flag = false;
start_draw ==
    /\ at = "draw"
    /\ canvas' = IF draw_flag THEN draw(vram) ELSE canvas
    /\ draw_flag' = FALSE
    /\ at' = "delay_timer"
    /\ UNCHANGED <<cpu, ram, vram, audio, keypad, held, panic, calls, last, timed>>

\* History: one more tick since the Fx15 executed last.
Tick ==
    timed' = IF timed # << >> /\ timed[1].ticks < MaxTicks
             THEN << [timed[1] EXCEPT !.ticks = @ + 1] >>
             ELSE timed

\* The delay timer decremented with no test for 0: a u8 that wraps from 0 to 255.
start_delay_timer_wraps ==
    /\ at = "delay_timer"
    /\ delay_timer' = (delay_timer + 255) % 256
    /\ at' = "sound_timer"
    /\ Tick
    /\ UNCHANGED <<pc, op, ir, sp, sound_timer, registers, stack, mem, disp, keypad,
                   held, panic, calls, last>>

\* if self.delay_timer > 0 { self.delay_timer -= 1; }
start_delay_timer ==
    /\ at = "delay_timer"
    /\ delay_timer' = IF delay_timer > 0 THEN delay_timer - 1 ELSE delay_timer
    /\ at' = "sound_timer"
    /\ Tick
    /\ UNCHANGED <<pc, op, ir, sp, sound_timer, registers, stack, mem, disp, keypad,
                   held, panic, calls, last>>

\* if self.sound_timer > 0 { start_audio(); self.sound_timer -= 1; } else { stop_audio(); }
start_sound_timer ==
    /\ at = "sound_timer"
    /\ IF sound_timer > 0
       THEN /\ audio' = "playing"
            /\ sound_timer' = sound_timer - 1
       ELSE /\ audio' = "paused"
            /\ UNCHANGED sound_timer
    /\ at' = "fetch"
    /\ UNCHANGED <<pc, op, ir, sp, delay_timer, registers, stack, mem, canvas, keypad,
                   held, panic, calls, last, timed>>

---------------------------------------------------------------------------
(* Chip8::cycle: fetch, then decode_execute *)

\* self.op = (self.ram[self.pc] as u16) << 8 | self.ram[self.pc + 1] as u16; self.pc += 2;
fetch ==
    /\ at = "fetch"
    /\ IF pc + 1 >= RAM_SIZE
       THEN /\ at' = "panic"
            /\ panic' = "fetch: index out of bounds"
            /\ UNCHANGED <<pc, op>>
       ELSE /\ op' = ram[pc] * 256 + ram[pc + 1]
            /\ pc' = pc + 2
            /\ at' = "decode_execute"
            /\ UNCHANGED panic
    /\ UNCHANGED <<ir, sp, delay_timer, sound_timer, registers, stack, mem, disp, keypad,
                   held, calls, last, timed>>

---------------------------------------------------------------------------
(* decode_execute: one action for each arm of its match *)

\* The control is in decode_execute and the opcode matches (h0, _, _, _).
Exec(h0) == at = "decode_execute" /\ hex0 = h0

\* History: the instruction being executed, its address, and the state it started from.
Executing ==
    [op |-> op, addr |-> pc - 2, vram |-> vram, calls |-> calls,
     registers |-> registers, ir |-> ir]

\* The handler returns; start sleeps and begins the next tick.
Retire ==
    /\ at' = "update_keypad"
    /\ last' = <<Executing>> \o SubSeq(last, 1, IF Len(last) > 0 THEN 1 ELSE 0)
    /\ UNCHANGED panic

\* The handler panics: the process ends.
Panic(msg) == at' = "panic" /\ panic' = msg /\ UNCHANGED last

\* What no handler changes; timed, the history of Fx15, only Fx15 does.
fixed == <<op, disp, keypad, held, timed>>

\* 00E0 - CLS: clear the display.
op_00e0 ==
    /\ Exec(0) /\ hex1 = 0 /\ hex2 = 14 /\ hex3 = 0
    /\ vram' = [row \in 0..(HEIGHT - 1) |-> [col \in 0..(WIDTH - 1) |-> 0]]
    /\ draw_flag' = TRUE
    /\ Retire
    /\ UNCHANGED <<pc, ir, sp, delay_timer, sound_timer, registers, stack, ram, calls, fixed>>

\* 00EE - RET: self.sp -= 1; self.pc = self.stack[self.sp];
\* With sp = 0 the subtraction panics in a build with overflow checks; without
\* them sp wraps to usize::MAX and the indexing panics.
op_00ee ==
    /\ Exec(0) /\ hex1 = 0 /\ hex2 = 14 /\ hex3 = 14
    /\ IF sp = 0
       THEN /\ \E msg \in {"op_00ee: attempt to subtract with overflow",
                           "op_00ee: index out of bounds"} : Panic(msg)
            /\ UNCHANGED <<pc, sp, calls>>
       ELSE IF sp - 1 >= STACK_LEN
       THEN /\ Panic("op_00ee: index out of bounds")
            /\ sp' = sp - 1
            /\ UNCHANGED <<pc, calls>>
       ELSE /\ sp' = sp - 1
            /\ pc' = stack[sp - 1]
            /\ calls' = SubSeq(calls, 1, Len(calls) - 1)
            /\ Retire
    /\ UNCHANGED <<ir, delay_timer, sound_timer, registers, stack, mem, fixed>>

\* 1nnn - JP addr
op_1nnn ==
    /\ Exec(1)
    /\ pc' = nnn
    /\ Retire
    /\ UNCHANGED <<ir, sp, delay_timer, sound_timer, registers, stack, mem, calls, fixed>>

\* op_2nnn saving the address of the call itself, not of the instruction after it.
op_2nnn_saves_call_address ==
    /\ Exec(2)
    /\ IF sp >= STACK_LEN
       THEN /\ Panic("op_2nnn: index out of bounds")
            /\ UNCHANGED <<pc, sp, stack, calls>>
       ELSE /\ stack' = [stack EXCEPT ![sp] = pc - 2]
            /\ sp' = sp + 1
            /\ pc' = nnn
            /\ calls' = Append(calls, pc - 2)
            /\ Retire
    /\ UNCHANGED <<ir, delay_timer, sound_timer, registers, mem, fixed>>

\* 2nnn - CALL addr: self.stack[self.sp] = self.pc; self.sp += 1; self.pc = nnn;
op_2nnn ==
    /\ Exec(2)
    /\ IF sp >= STACK_LEN
       THEN /\ Panic("op_2nnn: index out of bounds")
            /\ UNCHANGED <<pc, sp, stack, calls>>
       ELSE /\ stack' = [stack EXCEPT ![sp] = pc]
            /\ sp' = sp + 1
            /\ pc' = nnn
            /\ calls' = Append(calls, pc - 2)
            /\ Retire
    /\ UNCHANGED <<ir, delay_timer, sound_timer, registers, mem, fixed>>

\* The skips: if the condition holds, self.pc += 2.
Skip(cond) ==
    /\ pc' = IF cond THEN pc + 2 ELSE pc
    /\ Retire
    /\ UNCHANGED <<ir, sp, delay_timer, sound_timer, registers, stack, mem, calls, fixed>>

\* 3xkk - SE Vx, byte
op_3xkk == Exec(3) /\ Skip(registers[X] = lower_byte)

\* 4xkk - SNE Vx, byte
op_4xkk == Exec(4) /\ Skip(registers[X] # lower_byte)

\* op_5xy0 matched by (0x05, _, _, _): the low nibble is not looked at.
op_5xy0_any_low_nibble == Exec(5) /\ Skip(registers[X] = registers[Y])

\* 5xy0 - SE Vx, Vy
op_5xy0 == Exec(5) /\ hex3 = 0 /\ Skip(registers[X] = registers[Y])

\* 9xy0 - SNE Vx, Vy
op_9xy0 == Exec(9) /\ hex3 = 0 /\ Skip(registers[X] # registers[Y])

\* The handlers that change the registers only.
SetRegisters(regs) ==
    /\ registers' = regs
    /\ Retire
    /\ UNCHANGED <<pc, ir, sp, delay_timer, sound_timer, stack, mem, calls, fixed>>

\* 6xkk - LD Vx, byte
op_6xkk == Exec(6) /\ SetRegisters([registers EXCEPT ![X] = lower_byte])

\* 7xkk - ADD Vx, byte
op_7xkk == Exec(7) /\ SetRegisters([registers EXCEPT ![X] = wrapping_add(registers[X], lower_byte)])

\* 8xy0 - LD Vx, Vy
op_8xy0 == Exec(8) /\ hex3 = 0 /\ SetRegisters([registers EXCEPT ![X] = registers[Y]])

\* 8xy1 - OR Vx, Vy
op_8xy1 ==
    Exec(8) /\ hex3 = 1 /\ SetRegisters([registers EXCEPT ![X] = Or8(registers[X], registers[Y])])

\* 8xy2 - AND Vx, Vy
op_8xy2 ==
    Exec(8) /\ hex3 = 2 /\ SetRegisters([registers EXCEPT ![X] = And8(registers[X], registers[Y])])

\* 8xy3 - XOR Vx, Vy
op_8xy3 ==
    Exec(8) /\ hex3 = 3 /\ SetRegisters([registers EXCEPT ![X] = Xor8(registers[X], registers[Y])])

\* 8xy4 - ADD Vx, Vy: Vx is written first, the carry second.
op_8xy4 ==
    /\ Exec(8) /\ hex3 = 4
    /\ LET sum == registers[X] + registers[Y]
           r1 == [registers EXCEPT ![X] = sum % 256]
       IN  SetRegisters([r1 EXCEPT ![15] = IF sum > 255 THEN 1 ELSE 0])

\* 8xy5 - SUB Vx, Vy: the flag is written first, the difference is taken second.
op_8xy5 ==
    /\ Exec(8) /\ hex3 = 5
    /\ LET r1 == [registers EXCEPT ![15] = IF registers[X] > registers[Y] THEN 1 ELSE 0]
       IN  SetRegisters([r1 EXCEPT ![X] = wrapping_sub(r1[X], r1[Y])])

\* 8xy6 - SHR Vx
op_8xy6 ==
    /\ Exec(8) /\ hex3 = 6
    /\ LET r1 == [registers EXCEPT ![15] = And8(registers[X], 1)]
       IN  SetRegisters([r1 EXCEPT ![X] = r1[X] \div 2])

\* 8xy7 - SUBN Vx, Vy
op_8xy7 ==
    /\ Exec(8) /\ hex3 = 7
    /\ LET r1 == [registers EXCEPT ![15] = IF registers[X] < registers[Y] THEN 1 ELSE 0]
       IN  SetRegisters([r1 EXCEPT ![X] = wrapping_sub(r1[Y], r1[X])])

\* 8xyE - SHL Vx
op_8xye ==
    /\ Exec(8) /\ hex3 = 14
    /\ LET r1 == [registers EXCEPT ![15] = And8(registers[X], 128) \div 128]
       IN  SetRegisters([r1 EXCEPT ![X] = (r1[X] * 2) % 256])

\* Annn - LD I, addr
op_annn ==
    /\ Exec(10)
    /\ ir' = nnn
    /\ Retire
    /\ UNCHANGED <<pc, sp, delay_timer, sound_timer, registers, stack, mem, calls, fixed>>

\* Bnnn - JP V0, addr: self.pc = (nnn + self.registers[0] as u16) as usize;
op_bnnn ==
    /\ Exec(11)
    /\ pc' = (nnn + registers[0]) % 65536
    /\ Retire
    /\ UNCHANGED <<ir, sp, delay_timer, sound_timer, registers, stack, mem, calls, fixed>>

\* Cxkk - RND Vx, byte
op_cxkk ==
    /\ Exec(12)
    /\ \E n \in RandomBytes : SetRegisters([registers EXCEPT ![X] = And8(n, lower_byte)])

\* The body of op_dxyn's inner loop without the `& 0b1`: the pixel is the
\* sprite byte shifted, with the bits above bit j still in it.
dxyn_bit_unmasked(s, i, j, row) ==
    LET col == (s.registers[X] + j) % WIDTH
        pixel == ram[ir + i] \div (2^(7 - j))
    IN  [registers |-> [s.registers EXCEPT
                           ![15] = Or8(s.registers[15], And8(pixel, s.vram[row][col]))],
         vram |-> [s.vram EXCEPT ![row][col] = Xor8(s.vram[row][col], pixel)]]

\* op_dxyn, bit j of sprite row i: the column is taken from Vx as it is now,
\* the flag collects the collision and the pixel is flipped.  s holds the
\* registers and the frame so far, row the row of the frame.
dxyn_bit(s, i, j, row) ==
    LET col == (s.registers[X] + j) % WIDTH
        pixel == And8(ram[ir + i] \div (2^(7 - j)), 1)
    IN  [registers |-> [s.registers EXCEPT
                           ![15] = Or8(s.registers[15], And8(pixel, s.vram[row][col]))],
         vram |-> [s.vram EXCEPT ![row][col] = Xor8(s.vram[row][col], pixel)]]

\* op_dxyn's inner loop, for j in 0..8, from bit j on.  (The one-element set
\* binds t to the value of the state after bit j, computed once.)
RECURSIVE dxyn_bits(_, _, _, _)
dxyn_bits(s, i, j, row) ==
    IF j = 8 THEN s
    ELSE CHOOSE out \in { dxyn_bits(t, i, j + 1, row) : t \in { dxyn_bit(s, i, j, row) } } : TRUE

\* op_dxyn's outer loop, for i in 0..height, from sprite row i on: the row of
\* the frame is taken from Vy once for each sprite row; reading a sprite byte
\* past the memory panics.
RECURSIVE dxyn_rows(_, _)
dxyn_rows(s, i) ==
    IF i = N THEN [registers |-> s.registers, vram |-> s.vram, ok |-> TRUE]
    ELSE IF ir + i >= RAM_SIZE THEN [registers |-> s.registers, vram |-> s.vram, ok |-> FALSE]
    ELSE CHOOSE out \in
            { dxyn_rows(t, i + 1) :
                t \in { dxyn_bits(s, i, 0, (s.registers[Y] + i) % HEIGHT) } } : TRUE

\* Dxyn - DRW Vx, Vy, nibble
op_dxyn ==
    /\ Exec(13)
    /\ \E r \in { dxyn_rows([registers |-> [registers EXCEPT ![15] = 0], vram |-> vram], 0) } :
           /\ registers' = r.registers
           /\ vram' = r.vram
           /\ IF r.ok
              THEN draw_flag' = TRUE /\ Retire
              ELSE UNCHANGED draw_flag /\ Panic("op_dxyn: index out of bounds")
    /\ UNCHANGED <<pc, ir, sp, delay_timer, sound_timer, stack, ram, calls, fixed>>

\* Ex9E and ExA1: self.keypad[self.registers[x] as usize] panics past the keypad.
KeySkip(wanted) ==
    /\ IF registers[X] >= NUM_KEYS
       THEN Panic("keypad: index out of bounds") /\ UNCHANGED pc
       ELSE /\ pc' = IF keypad[registers[X]] = wanted THEN pc + 2 ELSE pc
            /\ Retire
    /\ UNCHANGED <<ir, sp, delay_timer, sound_timer, registers, stack, mem, calls, fixed>>

\* Ex9E - SKP Vx
op_ex9e == Exec(14) /\ hex2 = 9 /\ hex3 = 14 /\ KeySkip(TRUE)

\* ExA1 - SKNP Vx
op_exa1 == Exec(14) /\ hex2 = 10 /\ hex3 = 1 /\ KeySkip(FALSE)

\* Fx07 - LD Vx, DT
op_fx07 == Exec(15) /\ hex2 = 0 /\ hex3 = 7 /\ SetRegisters([registers EXCEPT ![X] = delay_timer])

\* Fx0A - LD Vx, K: the control enters the loop 'halt.
op_fx0a ==
    /\ Exec(15) /\ hex2 = 0 /\ hex3 = 10
    /\ at' = "op_fx0a"
    /\ UNCHANGED <<pc, ir, sp, delay_timer, sound_timer, registers, stack, mem, calls, fixed,
                   panic, last>>

\* One round of the loop 'halt: the first key of self.keypad that is pressed
\* goes to Vx and the loop is left; with no key pressed the loop goes round.
op_fx0a_halt ==
    /\ at = "op_fx0a"
    /\ LET pressed == { key \in 0..(NUM_KEYS - 1) : keypad[key] }
       IN  IF pressed # {}
           THEN /\ registers' = [registers EXCEPT
                                    ![X] = CHOOSE key \in pressed : \A k \in pressed : key <= k]
                /\ Retire
           ELSE UNCHANGED <<registers, at, panic, last>>
    /\ UNCHANGED <<pc, ir, sp, delay_timer, sound_timer, stack, mem, calls, fixed>>

\* Fx15 - LD DT, Vx
op_fx15 ==
    /\ Exec(15) /\ hex2 = 1 /\ hex3 = 5
    /\ delay_timer' = registers[X]
    /\ timed' = << [value |-> registers[X], ticks |-> 0] >>
    /\ Retire
    /\ UNCHANGED <<pc, ir, sp, sound_timer, registers, stack, mem, calls, op, disp, keypad, held>>

\* Fx18 - LD ST, Vx
op_fx18 ==
    /\ Exec(15) /\ hex2 = 1 /\ hex3 = 8
    /\ sound_timer' = registers[X]
    /\ Retire
    /\ UNCHANGED <<pc, ir, sp, delay_timer, registers, stack, mem, calls, fixed>>

\* Fx1E - ADD I, Vx: self.ir = self.ir.wrapping_add(self.registers[x] as usize);
\* a usize does not wrap at the sizes the index register takes here.
op_fx1e ==
    /\ Exec(15) /\ hex2 = 1 /\ hex3 = 14
    /\ ir' = ir + registers[X]
    /\ Retire
    /\ UNCHANGED <<pc, sp, delay_timer, sound_timer, registers, stack, mem, calls, fixed>>

\* Fx29 - LD F, Vx
op_fx29 ==
    /\ Exec(15) /\ hex2 = 2 /\ hex3 = 9
    /\ ir' = registers[X] * FONT_BYTES
    /\ Retire
    /\ UNCHANGED <<pc, sp, delay_timer, sound_timer, registers, stack, mem, calls, fixed>>

\* The memory after the bytes values[0], values[1], ... are written at ir, ir + 1, ...
\* in this order: the write that falls past the memory panics, those before it are done.
Stored(values) ==
    [a \in 0..(RAM_SIZE - 1) |-> IF a >= ir /\ a - ir \in DOMAIN values THEN values[a - ir] ELSE ram[a]]

\* Fx33 - LD B, Vx
op_fx33 ==
    /\ Exec(15) /\ hex2 = 3 /\ hex3 = 3
    /\ LET n == registers[X]
       IN  ram' = Stored([i \in 0..2 |-> CASE i = 0 -> n \div 100
                                           [] i = 1 -> (n \div 10) % 10
                                           [] i = 2 -> n % 10])
    /\ IF ir + 2 >= RAM_SIZE THEN Panic("op_fx33: index out of bounds") ELSE Retire
    /\ UNCHANGED <<pc, ir, sp, delay_timer, sound_timer, registers, stack, vram, draw_flag,
                   calls, fixed>>

\* op_fx55 with the range 0..x for 0..=x: Vx itself is not stored.
op_fx55_leaves_vx_out ==
    /\ Exec(15) /\ hex2 = 5 /\ hex3 = 5
    /\ ram' = Stored([i \in 0..(X - 1) |-> registers[i]])
    /\ IF ir + X - 1 >= RAM_SIZE THEN Panic("op_fx55: index out of bounds") ELSE Retire
    /\ UNCHANGED <<pc, ir, sp, delay_timer, sound_timer, registers, stack, vram, draw_flag,
                   calls, fixed>>

\* Fx55 - LD [I], Vx
op_fx55 ==
    /\ Exec(15) /\ hex2 = 5 /\ hex3 = 5
    /\ ram' = Stored([i \in 0..X |-> registers[i]])
    /\ IF ir + X >= RAM_SIZE THEN Panic("op_fx55: index out of bounds") ELSE Retire
    /\ UNCHANGED <<pc, ir, sp, delay_timer, sound_timer, registers, stack, vram, draw_flag,
                   calls, fixed>>

\* Fx65 - LD Vx, [I]: the read that falls past the memory panics, those before it are done.
op_fx65 ==
    /\ Exec(15) /\ hex2 = 6 /\ hex3 = 5
    /\ registers' = [i \in 0..(NUM_REGISTERS - 1) |->
                        IF i <= X /\ ir + i < RAM_SIZE THEN ram[ir + i] ELSE registers[i]]
    /\ IF ir + X >= RAM_SIZE THEN Panic("op_fx65: index out of bounds") ELSE Retire
    /\ UNCHANGED <<pc, ir, sp, delay_timer, sound_timer, stack, mem, calls, fixed>>

\* The opcode matches one of the arms above.
Known ==
    \/ hex0 = 0 /\ hex1 = 0 /\ hex2 = 14 /\ hex3 \in {0, 14}
    \/ hex0 \in {1, 2, 3, 4, 6, 7, 10, 11, 12, 13}
    \/ hex0 \in {5, 9} /\ hex3 = 0
    \/ hex0 = 8 /\ hex3 \in {0, 1, 2, 3, 4, 5, 6, 7, 14}
    \/ hex0 = 14 /\ <<hex2, hex3>> \in {<<9, 14>>, <<10, 1>>}
    \/ hex0 = 15 /\ <<hex2, hex3>> \in {<<0, 7>>, <<0, 10>>, <<1, 5>>, <<1, 8>>, <<1, 14>>,
                                        <<2, 9>>, <<3, 3>>, <<5, 5>>, <<6, 5>>}

\* _ => (): any other opcode does nothing.
nop ==
    /\ at = "decode_execute"
    /\ ~Known
    /\ Retire
    /\ UNCHANGED <<pc, ir, sp, delay_timer, sound_timer, registers, stack, mem, calls, fixed>>

decode_execute ==
    \/ op_00e0 \/ op_00ee \/ op_1nnn \/ op_2nnn \/ op_3xkk \/ op_4xkk \/ op_5xy0
    \/ op_6xkk \/ op_7xkk \/ op_8xy0 \/ op_8xy1 \/ op_8xy2 \/ op_8xy3 \/ op_8xy4
    \/ op_8xy5 \/ op_8xy6 \/ op_8xy7 \/ op_8xye \/ op_9xy0 \/ op_annn \/ op_bnnn
    \/ op_cxkk \/ op_dxyn \/ op_ex9e \/ op_exa1 \/ op_fx07 \/ op_fx0a \/ op_fx15
    \/ op_fx18 \/ op_fx1e \/ op_fx29 \/ op_fx33 \/ op_fx55 \/ op_fx65 \/ nop

---------------------------------------------------------------------------
(* The specification *)

\* The steps of the interpreter.
Step ==
    \/ start_update_keypad
    \/ start_draw
    \/ start_delay_timer
    \/ start_sound_timer
    \/ fetch
    \/ decode_execute
    \/ op_fx0a_halt

Next == Step \/ KeyEvent

Spec == Init /\ [][Next]_vars

\* The interpreter keeps taking steps while it can.
FairSpec == Spec /\ WF_vars(Step)

---------------------------------------------------------------------------
(* The claims *)

\* The instruction executed last, once it has returned to the loop.
Executed == at = "update_keypad" /\ last # << >>

\* C1: from an empty call stack and for every nesting depth up to 16, the
\* stack pointer counts the calls not yet returned from, slot i of the stack
\* holds the address after the i-th of them (call address + 2), and a return
\* sets the program counter to the address after the latest of them and the
\* stack pointer to what it was before that call: the returns restore the
\* program counter last in, first out, and after as many returns as calls the
\* stack pointer is where it started.
C1_CallReturnLifo ==
    /\ sp = Len(calls)
    /\ \A i \in 1..Len(calls) : stack[i - 1] = calls[i] + 2
    /\ (Executed /\ last[1].op = RET) =>
          LET open == last[1].calls
          IN  /\ pc = open[Len(open)] + 2
              /\ sp = Len(open) - 1
              /\ calls = SubSeq(open, 1, Len(open) - 1)

\* C1, witness: a return from the 16th nested call has restored the program counter.
C1_ReturnFromDepth16 ==
    /\ Executed /\ last[1].op = RET
    /\ Len(last[1].calls) = STACK_LEN
    /\ pc = last[1].calls[STACK_LEN] + 2
    /\ sp = STACK_LEN - 1

\* C2: a call executed with the stack pointer at 16 is a recoverable failure:
\* the stack pointer never exceeds 16, the stack has no slot but 0..15, and
\* the interpreter does not crash in the call.
C2_CallOnFullStackRecoverable ==
    /\ sp <= STACK_LEN
    /\ DOMAIN stack = 0..(STACK_LEN - 1)
    /\ panic # "op_2nnn: index out of bounds"

\* C3: a return executed with the stack pointer at 0 is a recoverable failure:
\* the stack pointer never goes below 0 and the interpreter does not crash in
\* the return, neither on the subtraction nor on reading a stack slot.
C3_ReturnOnEmptyStackRecoverable ==
    /\ sp >= 0
    /\ panic \notin {"op_00ee: attempt to subtract with overflow", "op_00ee: index out of bounds"}

\* C4: the wait for a key does not hold the loop: whenever the control is in
\* the wait instruction it is eventually back at the poll that begins the
\* next tick (and so at the render, the timers and the audio after it).
C4_WaitKeepsTheLoopRunning == [](at = "op_fx0a" => <>(at = "update_keypad"))

\* Some key of the keypad is held down: a poll would report a key pressed.
KeyDown == \E i \in 0..(NUM_KEYS - 1) : update_keypad(held)[i]

\* C5: a wait for a key completes once a key is pressed: the interpreter does
\* not stay in the wait instruction for ever while a key of the keypad is
\* held down.
C5_WaitCompletesOnceAKeyIsHeld == []<>(~(at = "op_fx0a" /\ KeyDown))

\* C6: whatever Vx holds, the key skips Ex9E and ExA1 do not index the keypad
\* outside 0..15 and do not crash the interpreter.
C6_KeySkipNeverCrashes == panic # "keypad: index out of bounds"

\* C7: the sprite draw, the BCD store, the block store and the block load
\* touch the memory at 0..4095 only and do not crash the interpreter.
C7_MemoryOperationsNeverCrash ==
    panic \notin {"op_dxyn: index out of bounds", "op_fx33: index out of bounds",
                  "op_fx55: index out of bounds", "op_fx65: index out of bounds"}

\* C8: at every fetch the program counter and the program counter + 1 are
\* addresses of the memory, and the fetch does not crash the interpreter.
C8_FetchInMemory ==
    /\ at = "fetch" => pc + 1 <= RAM_SIZE - 1
    /\ panic # "fetch: index out of bounds"

\* C9: the index register is an address of the memory, 0..4095, in every
\* reachable state.
C9_IndexRegisterInMemory == ir \in 0..(RAM_SIZE - 1)

\* The last two instructions executed are the same sprite draw, one right
\* after the other.
SecondDraw ==
    /\ Executed /\ Len(last) = 2
    /\ last[1].op \div 4096 = 13
    /\ last[1].op = last[2].op

\* The sprite of the draw executed last has a set bit.
SpriteHasSetBit == \E i \in 0..(N - 1) : ram[ir + i] # 0

\* Some set bit of the sprite of the draw executed last, drawn at (Vx, Vy),
\* falls on a pixel that frame v has unset.
SpriteMeetsUnset(v) ==
    \E i \in 0..(N - 1), j \in 0..7 :
        /\ Bit(ram[ir + i], 7 - j) = 1
        /\ v[(registers[Y] + i) % HEIGHT][(registers[X] + j) % WIDTH] = 0

StoreThenLoad ==
    /\ Executed /\ Len(last) = 2
    /\ last[2].op = STM(X) /\ last[1].op = LDM(X)
    /\ last[2].ir = last[1].ir
    /\ last[2].ir + X <= RAM_SIZE - 1

\* C11: a block store Fx55 followed by a block load Fx65 with the same x and
\* the same I, I + x <= 4095, leaves all 16 registers as they were before the
\* store, and the index register is after each of the two what it was before
\* the store.
C11_StoreLoadRoundTrip ==
    StoreThenLoad =>
        /\ registers = last[2].registers
        /\ last[1].registers = last[2].registers
        /\ ir = last[2].ir

\* C11, witness: V0..VF, with V0, V1 and VF not 0, stored in the last 16
\* bytes of the memory, which held zeros, and loaded back.
C11_StoredAndLoadedAtMemoryEnd ==
    /\ StoreThenLoad
    /\ X = 15 /\ ir + X = RAM_SIZE - 1
    /\ last[2].registers[0] = 7 /\ last[2].registers[15] = 77
    /\ \A i \in 0..X : ram[ir + i] = registers[i]

\* C12: in every tick the timers are decremented first and the audio is
\* driven second: when the audio step of a tick is done, the tone is on
\* exactly when the sound timer, as that tick's decrement left it, is not 0.
C12_AudioFollowsDecrementedTimer ==
    at = "fetch" => (audio = "playing" <=> sound_timer # 0)

\* What a step does to the timers: the tick's two decrements take 1 from a
\* timer that is not 0 and leave a 0 at 0, each touching its own timer only;
\* any other step that changes a timer is Fx15 (the delay timer, set to Vx) or
\* Fx18 (the sound timer, set to Vx).
TimerStep ==
    /\ at = "delay_timer" =>
          /\ delay_timer' = IF delay_timer > 0 THEN delay_timer - 1 ELSE 0
          /\ sound_timer' = sound_timer
    /\ at = "sound_timer" =>
          /\ sound_timer' = IF sound_timer > 0 THEN sound_timer - 1 ELSE 0
          /\ delay_timer' = delay_timer
    /\ (at \notin {"delay_timer", "sound_timer"} /\ delay_timer' # delay_timer) =>
          at = "decode_execute" /\ op = LDDT(X) /\ delay_timer' = registers[X]
    /\ (at \notin {"delay_timer", "sound_timer"} /\ sound_timer' # sound_timer) =>
          at = "decode_execute" /\ op = LDST(X) /\ sound_timer' = registers[X]

\* An Fx07 has just executed, k ticks after the Fx15 that set the delay timer
\* last, with k among the ticks counted.
ReadAfterSet ==
    /\ Executed /\ last[1].op = LDVDT(X)
    /\ timed # << >> /\ timed[1].ticks < MaxTicks

\* C13: each tick takes exactly 1 from the delay timer and from the sound
\* timer when they are not 0 and leaves a 0 at 0, before the instruction of
\* the tick; apart from that only Fx15 and Fx18 change a timer; and a delay
\* timer set to v by Fx15 is read by an Fx07 executed k ticks later as
\* max(v - k, 0).
C13_TimersCountDownOncePerTick ==
    /\ [][TimerStep]_vars
    /\ [](ReadAfterSet =>
            registers[X] = IF timed[1].value > timed[1].ticks
                           THEN timed[1].value - timed[1].ticks ELSE 0)

\* C13, witness: the delay timer set to 3 and read 5 ticks later, as 0.
C13_ReadAtZeroAfterFiveTicks ==
    /\ ReadAfterSet
    /\ timed[1].value = 3 /\ timed[1].ticks = 5
    /\ registers[X] = 0

\* The render step of a tick: with the dirty flag set the canvas becomes the
\* picture of the framebuffer as it is now, with the flag clear the canvas is
\* left alone; the flag is clear afterwards.
RenderStep ==
    at = "draw" =>
        /\ canvas' = IF draw_flag THEN draw(vram) ELSE canvas
        /\ ~draw_flag'

\* The instruction executed last was a clear-screen or a sprite draw.
Drew == last # << >> /\ (last[1].op = CLS \/ last[1].op \div 4096 = 13)

\* C14: the renderer is invoked at the render step of a tick exactly when the
\* dirty flag is set, with the current framebuffer, and the flag is clear
\* afterwards; so the flag is set at the render step exactly when the
\* instruction of the tick before was a clear-screen or a sprite draw, and
\* from the render step to the next instruction the canvas shows what that
\* instruction left in the framebuffer.
C14_RenderedInTheNextTick ==
    /\ [][RenderStep]_vars
    /\ [](at = "draw" => (draw_flag <=> Drew))
    /\ []((at \in {"delay_timer", "sound_timer", "fetch", "decode_execute"} /\ Drew) =>
            canvas = draw(vram))

\* C14, witness: a sprite draw that lit pixels has been rendered by the next
\* tick, whose instruction has not executed yet.
C14_DrawRendered ==
    /\ at = "fetch" /\ Drew /\ last[1].op \div 4096 = 13
    /\ ~draw_flag
    /\ canvas = draw(vram)
    /\ \E row \in 0..(HEIGHT - 1), col \in 0..(WIDTH - 1) : canvas[row][col] = LIGHT

\* C15: for all register indices x and y, register 15 included, 8xy5 ends
\* with VF = 1 if Vx was greater than Vy before the instruction and VF = 0
\* otherwise, and for x # 15 with Vx = (Vx - Vy) mod 256 of the values before
\* the instruction; 8xy7 the same with Vx and Vy exchanged.
C15_SubtractFlagAndDifference ==
    (Executed /\ hex0 = 8 /\ hex3 \in {5, 7}) =>
        LET pre == last[1].registers
            minuend == IF hex3 = 5 THEN pre[X] ELSE pre[Y]
            subtrahend == IF hex3 = 5 THEN pre[Y] ELSE pre[X]
        IN  /\ registers[15] = IF minuend > subtrahend THEN 1 ELSE 0
            /\ X # 15 => registers[X] = (minuend - subtrahend + 256) % 256

\* The bit that the sprite of the draw executed last, placed at the
\* coordinates Vx and Vy held when the draw started, has for the pixel at
\* (row, col): bit j of sprite row i where col = (Vx + j) mod 64 and
\* row = (Vy + i) mod 32, and 0 for a pixel the sprite does not cover.
SpriteBitAt(row, col) ==
    LET i == (row - last[1].registers[Y] + 8 * HEIGHT) % HEIGHT
        j == (col - last[1].registers[X] + 4 * WIDTH) % WIDTH
    IN  IF i < N /\ j < 8 THEN Bit(ram[ir + i], 7 - j) ELSE 0

\* C16: for all register indices x and y, register 15 included, Dxyn XORs
\* bit j of sprite row i into the pixel at column (Vx + j) mod 64 and row
\* (Vy + i) mod 32, Vx and Vy being the values when the instruction starts,
\* and changes no other pixel.
C16_DrawAtStartCoordinates ==
    (Executed /\ hex0 = 13) =>
        \A row \in 0..(HEIGHT - 1), col \in 0..(WIDTH - 1) :
            vram[row][col] = (last[1].vram[row][col] + SpriteBitAt(row, col)) % 2

\* C17: for every address nnn and every V0, the indexed jump Bnnn sets the
\* program counter to (nnn + V0) mod 4096, an address in 0..4095.
C17_IndexedJumpWraps ==
    (Executed /\ hex0 = 11) =>
        /\ pc = (nnn + last[1].registers[0]) % RAM_SIZE
        /\ pc \in 0..(RAM_SIZE - 1)

\* What the fetch and the execution of a word that matches no pattern of
\* decode_execute do: the fetch moves the program counter on by 2; the
\* execution returns to the loop with no error and leaves the program
\* counter after the word, and memory, registers, index register, stack,
\* stack pointer, timers, framebuffer, keypad and dirty flag as they were.
UnknownWordStep ==
    /\ (at = "fetch" /\ at' = "decode_execute") => pc' = pc + 2
    /\ (at = "decode_execute" /\ ~Known) =>
          /\ at' = "update_keypad" /\ panic' = ""
          /\ pc' = pc /\ pc' = last'[1].addr + 2
          /\ UNCHANGED <<ram, registers, ir, stack, sp, delay_timer, sound_timer, vram,
                         keypad, draw_flag>>

\* C18: every instruction word that matches none of the defined patterns
\* executes as a no-op: the program counter advances by exactly 2, nothing
\* else of the machine changes and no error is raised.
C18_UnknownWordIsNoOp == [][UnknownWordStep]_vars

\* C18, witness: the word 5121 has executed with V1 = V2; the program counter
\* is at the word after it and the register, the index register and the
\* memory are as the program had set them.
C18_Executed5121 ==
    /\ Executed /\ op = \h5121
    /\ registers[1] = registers[2]
    /\ pc = last[1].addr + 2
    /\ registers[3] = 9 /\ ir = \h321 /\ sp = 0
    /\ ram = load_rom(new_ram(FONT_SET), RomUnknown(\h5121))

\* C19: when a poll reports a termination request the loop exits with the
\* tone stopped: the audio is never left playing at exit, whatever the sound
\* timer is.
C19_ToneStoppedAtExit == at = "exit" => audio = "paused"

\* Every cell of the framebuffer holds 0 or 1.
SingleBitPixels ==
    \A row \in 0..(HEIGHT - 1), col \in 0..(WIDTH - 1) : vram[row][col] \in {0, 1}

\* C20: in every reachable state every cell of the framebuffer holds 0 or 1,
\* and a step that changes the framebuffer is the execution of a sprite draw
\* Dxyn or of the clear-screen 00E0: every other instruction and every step
\* of the loop leaves all the cells as they were.
C20_FramebufferOfBitsDrawOrClearOnly ==
    /\ []SingleBitPixels
    /\ [][vram' # vram => (at = "decode_execute" /\ (op = CLS \/ hex0 = 13))]_vars

\* C20, witness: a sprite draw has changed the framebuffer, which has cells
\* set and cells unset.
C20_DrawChangedFrame ==
    /\ Executed /\ hex0 = 13
    /\ vram # last[1].vram
    /\ \E row \in 0..(HEIGHT - 1), col \in 0..(WIDTH - 1) : vram[row][col] = 1
    /\ \E row \in 0..(HEIGHT - 1), col \in 0..(WIDTH - 1) : vram[row][col] = 0
    /\ SingleBitPixels

=============================================================================
